---- MODULE Spec2Model ----
(***************************************************************************)
(* hyperfs (src/hyperfs/main.py): a directory tree is scanned for marker   *)
(* files (parameters.yaml); the parameter sets found are put in a table    *)
(* (Cube) and projected as a virtual filesystem in which every path        *)
(* segment key:value filters the table.  A watchdog thread rebuilds the    *)
(* table when a marker file changes.                                       *)
(*                                                                         *)
(* Text is modelled as a sequence of atoms: an atom is a run of characters *)
(* that holds no separator, or one separator character.  'color:red' is    *)
(* <<"color", ":", "red">>, the empty string is <<>>.                      *)
(***************************************************************************)
EXTENDS Integers, Sequences, FiniteSets, TLC

VARIABLES
    tree,       \* the watched directory tree: directory name -> state of its marker file
    phase,      \* main(): "init", "mounted" (FUSE serving) or "aborted" (startup raised)
    fault,      \* the exception that left main(), NoError when none did
    fs_cube,    \* FileSystem._cube: the Cube the lookups read
    events,     \* watchdog events delivered and not yet handled (observer thread's queue)
    changes,    \* number of changes made to the tree so far
    log,        \* last message of Watchdog.on_any_event
    call,       \* the FUSE operation in progress (nothreads=True: one at a time)
    observed    \* history: the Cubes that were FileSystem._cube during the call in progress

vars == <<tree, phase, fault, fs_cube, events, changes, log, call, observed>>

(***************************************************************************)
(* Bounds of the model.                                                    *)
(***************************************************************************)
MaxSegs == 2        \* segments of a looked-up path
MaxChanges == 2     \* changes made to the tree while mounted
MaxQueue == 2       \* events waiting for the observer thread
MaxFiles == 2       \* marker files of a tree the lookups are tried on

(***************************************************************************)
(* Configuration (main's arguments) and Cube's class constants.            *)
(***************************************************************************)
os_sep == "/"
name_separator == ":"
parameters_file == <<"parameters.yaml">>
none_placeholder == <<"None">>
internal_prefix == "NUL"

internal(name) == <<internal_prefix>> \o name

is_internal(name) == Len(name) > 0 /\ name[1] = internal_prefix

(***************************************************************************)
(* str.split, str.join, os.path.basename, os.path.split, os.path.join.     *)
(***************************************************************************)
RECURSIVE IndexOf(_, _, _)
IndexOf(s, c, i) ==
    IF i > Len(s) THEN 0
    ELSE IF s[i] = c THEN i
    ELSE IndexOf(s, c, i + 1)

RECURSIVE str_split(_, _)
str_split(s, c) ==
    LET i == IndexOf(s, c, 1) IN
    IF i = 0 THEN <<s>>
    ELSE <<SubSeq(s, 1, i - 1)>> \o str_split(SubSeq(s, i + 1, Len(s)), c)

\* a split at the last separator instead of the first (rsplit)
str_split1_at_last(s, c) ==
    LET found == {i \in 1..Len(s) : s[i] = c} IN
    IF found = {} THEN <<s>>
    ELSE LET i == CHOOSE j \in found : \A k \in found : k <= j IN
         <<SubSeq(s, 1, i - 1), SubSeq(s, i + 1, Len(s))>>

\* str.split(c, 1)
str_split1(s, c) ==
    LET i == IndexOf(s, c, 1) IN
    IF i = 0 THEN <<s>>
    ELSE <<SubSeq(s, 1, i - 1), SubSeq(s, i + 1, Len(s))>>

RECURSIVE str_join(_, _)
str_join(parts, c) ==
    IF Len(parts) = 0 THEN <<>>
    ELSE IF Len(parts) = 1 THEN parts[1]
    ELSE parts[1] \o <<c>> \o str_join(Tail(parts), c)

os_path_basename(p) ==
    LET parts == str_split(p, os_sep) IN parts[Len(parts)]

os_path_join(dirpath, name) == dirpath \o <<os_sep>> \o name

\* os.path.split(p)[0] for an absolute path below the root directory
os_path_dirname(p) ==
    LET parts == str_split(p, os_sep) IN
    str_join(SubSeq(parts, 1, Len(parts) - 1), os_sep)

(***************************************************************************)
(* The watched tree.  Every directory of DirNames lies directly below the  *)
(* root; its marker file is absent, unparseable, or a YAML mapping.        *)
(***************************************************************************)
DirNames == {"a", "b", "c"}

\* os.walk visits the directories in a fixed order
WalkOrder == <<"a", "b", "c">>

dirpath(d) == <<os_sep, d>>

Absent == [kind |-> "absent", params |-> <<>>]
Malformed == [kind |-> "malformed", params |-> <<>>]
Yaml(params) == [kind |-> "yaml", params |-> params]

color == <<"color">>
size == <<"size">>
size_s == <<"size", name_separator, "s">>

RedS == Yaml((color :> <<"red">>) @@ (size :> <<"s">>))
RedM == Yaml((color :> <<"red">>) @@ (size :> <<"m">>))
Blue == Yaml((color :> <<"blue">>))
BlueNone == Yaml((color :> <<"blue">>) @@ (size :> <<"None">>))
EmptyDoc == Yaml(<<>>)
ValueWithSep == Yaml((size :> <<"s", name_separator, "m">>))
KeyWithSep == Yaml((size_s :> <<"m">>))

\* what a marker file may hold
Documents == {RedS, RedM, Blue, BlueNone, EmptyDoc, ValueWithSep, KeyWithSep, Malformed}

\* RedM adds to RedS only a second value of size
LookupDocuments == Documents \ {RedM}

\* what is written to a marker file while the filesystem is mounted
WrittenDocuments == {RedS, Blue, Malformed}

\* every column name a table over Documents can have, in lexicographic order
\* ('\0' sorts before every letter, a proper prefix before its extensions)
ColumnOrder == <<internal(<<"file_path">>), internal(<<"link_target">>), color, size, size_s>>

Range(f) == {f[i] : i \in DOMAIN f}

NoError == [type |-> "none", similar |-> {}]
Raise(type, similar) == [type |-> type, similar |-> similar]

(***************************************************************************)
(* Cube._read_parameters: the mapping of one marker file, plus the two     *)
(* internal entries.  yaml.load raises on an unparseable file; an empty    *)
(* file loads as None and becomes {}.  Keys and values of Documents are    *)
(* strings already, so str() leaves them as they are.                      *)
(***************************************************************************)
read_parameters_raises(file_state) == file_state.kind = "malformed"

read_parameters(file_name, file_state) ==
    file_state.params
        @@ (internal(<<"file_path">>) :> file_name)
        @@ (internal(<<"link_target">>) :> os_path_dirname(file_name))

\* the os.walk loop of _compute_cube: the marker files found, in walk order
walk_models(t) ==
    LET found == SelectSeq(WalkOrder, LAMBDA d : t[d].kind # "absent") IN
    [i \in DOMAIN found |-> os_path_join(dirpath(found[i]), parameters_file)]

\* the directory a marker file path was found in
model_dir(file_name) == file_name[2]

\* a DataFrame whose missing entries stay NaN (fillna left out)
DataFrame_without_fillna(dicts) ==
    LET keys == UNION {DOMAIN dicts[i] : i \in DOMAIN dicts}
        columns == SelectSeq(ColumnOrder, LAMBDA c : c \in keys)
    IN  [columns |-> columns,
         rows |-> [i \in DOMAIN dicts |->
                      [c \in keys |-> IF c \in DOMAIN dicts[i] THEN dicts[i][c]
                                      ELSE <<"nan">>]],
         index_names |-> {}]

(***************************************************************************)
(* pd.DataFrame(list of dicts) followed by fillna: the columns are the     *)
(* union of the dicts' keys, sorted; a row has the placeholder where its   *)
(* dict has no entry.                                                      *)
(***************************************************************************)
DataFrame(dicts) ==
    LET keys == UNION {DOMAIN dicts[i] : i \in DOMAIN dicts}
        columns == SelectSeq(ColumnOrder, LAMBDA c : c \in keys)
    IN  [columns |-> columns,
         rows |-> [i \in DOMAIN dicts |->
                      [c \in keys |-> IF c \in DOMAIN dicts[i] THEN dicts[i][c]
                                      ELSE none_placeholder]],
         index_names |-> {}]

EmptyFrame == DataFrame(<<>>)

\* DataFrame.groupby(index_columns): the groups of more than one row, each as
\* the set of its rows' file paths
similar_groups(frame, index_columns) ==
    LET same(i, j) == \A c \in Range(index_columns) : frame.rows[i][c] = frame.rows[j][c]
        group(i) == {frame.rows[j][internal(<<"file_path">>)] :
                        j \in {k \in DOMAIN frame.rows : same(i, k)}}
    IN  {group(i) : i \in {k \in DOMAIN frame.rows :
                              \E j \in DOMAIN frame.rows : j # k /\ same(k, j)}}

\* set_index(..., verify_integrity=True) raises when two rows have the same index tuple
index_has_duplicates(frame, index_columns) ==
    \E i, j \in DOMAIN frame.rows :
        i # j /\ \A c \in Range(index_columns) : frame.rows[i][c] = frame.rows[j][c]

(***************************************************************************)
(* Cube._compute_cube: [ok, frame, error]; ok is FALSE when it raises.     *)
(***************************************************************************)
compute_cube(t) ==
    LET models == walk_models(t) IN
    IF \E i \in DOMAIN models : read_parameters_raises(t[model_dir(models[i])])
    THEN [ok |-> FALSE, frame |-> EmptyFrame, error |-> Raise("YAMLError", {})]
    ELSE
        LET params == DataFrame([i \in DOMAIN models |->
                                    read_parameters(models[i], t[model_dir(models[i])])])
            index_columns == SelectSeq(params.columns, LAMBDA c : ~is_internal(c))
        IN  IF index_columns # <<>>
            THEN IF index_has_duplicates(params, index_columns)
                 THEN [ok |-> FALSE, frame |-> EmptyFrame,
                       error |-> Raise("ValueError", similar_groups(params, index_columns))]
                 ELSE [ok |-> TRUE,
                       frame |-> [params EXCEPT !.index_names = Range(index_columns)],
                       error |-> NoError]
            ELSE [ok |-> TRUE, frame |-> params, error |-> NoError]

\* the Cube that stands for "no Cube" (FileSystem._cube before __init__ assigns it)
NoCube == [cube |-> EmptyFrame, parameters |-> {}, separator |-> "", built |-> FALSE]

(***************************************************************************)
(* Cube.__init__: [ok, cube, error].  root and parameters_file_name are    *)
(* the same in every Cube and are not stored.                              *)
(***************************************************************************)
Cube(t, separator) ==
    LET computed == compute_cube(t) IN
    IF ~computed.ok
    THEN [ok |-> FALSE, cube |-> NoCube, error |-> computed.error]
    ELSE [ok |-> TRUE,
          cube |-> [cube |-> computed.frame,
                    parameters |-> Range(computed.frame.columns)
                                      \cap computed.frame.index_names,
                    separator |-> separator,
                    built |-> TRUE],
          error |-> NoError]

\* Cube.refresh
cube_refresh(self, t) == Cube(t, self.separator)

(***************************************************************************)
(* Cube._path_to_query.  The while loop, with part = next[0]: an empty     *)
(* part is moved to seen; a part with no separator (association[1] raises  *)
(* IndexError) or with a key that is no column breaks the loop; any other  *)
(* part sets query[key] and is moved to seen.                              *)
(***************************************************************************)
RECURSIVE path_to_query_loop(_, _, _, _, _)
path_to_query_loop(seen, next, query, columns, separator) ==
    IF Len(next) = 0
    THEN [seen |-> seen, next |-> next, query |-> query]
    ELSE
        LET part == next[1]
            association == str_split1(part, separator)
        IN  IF part # <<>>
            THEN IF Len(association) < 2 \/ association[1] \notin columns
                 THEN [seen |-> seen, next |-> next, query |-> query]
                 ELSE path_to_query_loop(Append(seen, part), Tail(next),
                                         (association[1] :> association[2]) @@ query,
                                         columns, separator)
            ELSE path_to_query_loop(Append(seen, part), Tail(next), query,
                                    columns, separator)

\* a parser that skips a part it cannot read and goes on with the next one
RECURSIVE path_to_query_skipping_loop(_, _, _, _, _)
path_to_query_skipping_loop(seen, next, query, columns, separator) ==
    IF Len(next) = 0
    THEN [seen |-> seen, next |-> next, query |-> query]
    ELSE
        LET part == next[1]
            association == str_split1(part, separator)
        IN  IF part # <<>> /\ Len(association) = 2 /\ association[1] \in columns
            THEN path_to_query_skipping_loop(Append(seen, part), Tail(next),
                                             (association[1] :> association[2]) @@ query,
                                             columns, separator)
            ELSE path_to_query_skipping_loop(Append(seen, part), Tail(next), query,
                                             columns, separator)

path_to_query_skipping(path, columns, separator) ==
    LET end == path_to_query_skipping_loop(<<>>, str_split(path, os_sep), <<>>,
                                           columns, separator)
    IN  [seen |-> str_join(end.seen, os_sep),
         next |-> str_join(end.next, os_sep),
         query |-> end.query]

path_to_query(path, columns, separator) ==
    LET end == path_to_query_loop(<<>>, str_split(path, os_sep), <<>>, columns, separator)
    IN  [seen |-> str_join(end.seen, os_sep),
         next |-> str_join(end.next, os_sep),
         query |-> end.query]

(***************************************************************************)
(* Cube._index_search: one pass over the rows per entry of the query,      *)
(* keeping the rows whose column key holds value.                          *)
(***************************************************************************)
RECURSIVE index_search_loop(_, _, _)
index_search_loop(keys, query, data) ==
    IF keys = {} THEN data
    ELSE LET key == CHOOSE k \in keys : TRUE IN
         index_search_loop(keys \ {key}, query,
             [data EXCEPT !.rows = SelectSeq(data.rows, LAMBDA row : row[key] = query[key])])

\* a search that filters the whole table anew for each entry of the query,
\* so that only the last entry counts
index_search_last_entry(query, frame) ==
    IF DOMAIN query = {} THEN frame
    ELSE LET key == CHOOSE k \in DOMAIN query : TRUE IN
         [frame EXCEPT !.rows = SelectSeq(frame.rows, LAMBDA row : row[key] = query[key])]

index_search(query, frame) == index_search_loop(DOMAIN query, query, frame)

\* Cube.path_search
path_search(self, path) ==
    LET conversion == path_to_query(path, self.parameters, self.separator) IN
    [conversion |-> conversion, result |-> index_search(conversion.query, self.cube)]

\* Series.unique: the values of a column, in order of first appearance
RECURSIVE unique(_, _)
unique(rows, key) ==
    IF Len(rows) = 0 THEN <<>>
    ELSE LET before == unique(SubSeq(rows, 1, Len(rows) - 1), key)
             value == rows[Len(rows)][key]
         IN  IF value \in Range(before) THEN before ELSE Append(before, value)

\* a name that leaves the separator out
dirent_name_without_separator(key, separator, value) == key \o value

\* '{key}{separator}{value}'.format
dirent_name(key, separator, value) == key \o <<separator>> \o value

(***************************************************************************)
(* What a FUSE operation returns or raises.                                *)
(***************************************************************************)
NoRet == [kind |-> "none", value |-> <<>>]
Ret(kind, value) == [kind |-> kind, value |-> value]

\* a getattr that answers Directory from one matching row on
fs_getattr_from_one_row(cube, path) ==
    LET found == path_search(cube, path) IN
    IF os_path_basename(path) \in {<<>>, <<".">>, <<"..">>} \/ Len(found.result.rows) >= 1
    THEN Ret("S_IFDIR", <<>>)
    ELSE Ret("ENOENT", <<>>)

\* FileSystem.getattr
fs_getattr(cube, path) ==
    LET found == path_search(cube, path) IN
    IF os_path_basename(path) \in {<<>>, <<".">>, <<"..">>} \/ Len(found.result.rows) > 1
    THEN Ret("S_IFDIR", <<>>)
    ELSE IF Len(found.result.rows) = 1
    THEN Ret("S_IFLNK", <<>>)
    ELSE Ret("ENOENT", <<>>)

\* a readlink without the assertion: the target of the first row found
fs_readlink_first_row(cube, path) ==
    LET found == path_search(cube, path) IN
    IF Len(found.result.rows) >= 1
    THEN Ret("target", found.result.rows[1][internal(<<"link_target">>)])
    ELSE Ret("AssertionError", <<>>)

\* FileSystem.readlink
fs_readlink(cube, path) ==
    LET found == path_search(cube, path) IN
    IF Len(found.result.rows) = 1
    THEN Ret("target", found.result.rows[1][internal(<<"link_target">>)])
    ELSE Ret("AssertionError", <<>>)

\* a readdir that lists the keys of the query again
readdir_key_relisting(cube_now, conversion, result, key, dirents) ==
    IF key \notin cube_now.parameters THEN dirents
    ELSE LET values == unique(result.rows, key) IN
         dirents \o [i \in DOMAIN values |-> dirent_name(key, cube_now.separator, values[i])]

\* FileSystem.readdir, one pass of its loop over result.columns: the columns
\* and the rows are those of the table path_search returned, the parameters
\* and the separator are read from FileSystem._cube as it is now
readdir_key(cube_now, conversion, result, key, dirents) ==
    IF key \notin cube_now.parameters THEN dirents
    ELSE IF key \in DOMAIN conversion.query THEN dirents
    ELSE LET values == unique(result.rows, key) IN
         dirents \o [i \in DOMAIN values |-> dirent_name(key, cube_now.separator, values[i])]

\* FileSystem.readdir run to its end on one Cube
RECURSIVE readdir_loop(_, _, _, _, _)
readdir_loop(cube, conversion, result, todo, dirents) ==
    IF todo = <<>> THEN dirents
    ELSE readdir_loop(cube, conversion, result, Tail(todo),
                      readdir_key(cube, conversion, result, Head(todo), dirents))

fs_readdir(cube, path) ==
    LET found == path_search(cube, path) IN
    Ret("dirents", readdir_loop(cube, found.conversion, found.result,
                                found.result.columns, <<<<".">>, <<"..">>>>))

(***************************************************************************)
(* The paths FUSE asks about: '/' followed by up to MaxSegs segments.      *)
(***************************************************************************)
kv(key, value) == key \o <<name_separator>> \o value

Segments ==
    {<<>>, <<".">>, <<"..">>, <<"garbage">>,
     kv(color, <<"red">>), kv(color, <<"green">>), kv(size, <<"s">>)}

SegLists == UNION {[1..n -> Segments] : n \in 0..MaxSegs}

PathOf(segs) == <<os_sep>> \o str_join(segs, os_sep)

Paths == {PathOf(segs) : segs \in SegLists}

\* the paths of the README scenario, and one that is no key:value path
ScenarioPaths ==
    {PathOf(<<>>),
     PathOf(<<kv(color, <<"red">>)>>),
     PathOf(<<kv(color, <<"red">>), kv(size, <<"s">>)>>),
     PathOf(<<kv(color, <<"blue">>), kv(size, none_placeholder)>>),
     PathOf(<<kv(color, <<"green">>)>>),
     PathOf(<<<<"garbage">>>>)}

(***************************************************************************)
(* The FUSE operation in progress.  getattr and readlink run in one step.  *)
(* readdir is a generator: its body runs as FUSE iterates it, one column   *)
(* of the result per step.                                                 *)
(***************************************************************************)
NoConversion == [seen |-> <<>>, next |-> <<>>, query |-> <<>>]

\* checked: the host had just asked getattr about the path and was told Link
Idle == [op |-> "none", path |-> <<>>, pc |-> "idle", conversion |-> NoConversion,
         result |-> EmptyFrame, todo |-> <<>>, dirents |-> <<>>, ret |-> NoRet,
         checked |-> FALSE]

Returned(op, path, ret) == [Idle EXCEPT !.op = op, !.path = path, !.pc = "done", !.ret = ret]

\* a host that sends requests whether or not the filesystem is mounted
CanCall_before_mount == call.pc = "idle"

\* FUSE serves requests once main has mounted the filesystem, one at a time
CanCall == phase = "mounted" /\ call.pc = "idle"

getattr(path) ==
    /\ CanCall
    /\ call' = Returned("getattr", path, fs_getattr(fs_cube, path))
    /\ observed' = {fs_cube}
    /\ UNCHANGED <<tree, phase, fault, fs_cube, events, changes, log>>

\* the host has the answer of a getattr of path, and it is Link
FollowsLink(path) ==
    /\ phase = "mounted"
    /\ call.pc = "done" /\ call.op = "getattr" /\ call.path = path
    /\ call.ret.kind = "S_IFLNK"

\* readlink is the next request, or the request of a host that follows the
\* link getattr has just told it about
readlink(path) ==
    /\ CanCall \/ FollowsLink(path)
    /\ call' = [Returned("readlink", path, fs_readlink(fs_cube, path))
                    EXCEPT !.checked = FollowsLink(path)]
    /\ observed' = {fs_cube}
    /\ UNCHANGED <<tree, phase, fault, fs_cube, events, changes, log>>

\* readdir up to its loop: path_search on FileSystem._cube, dirents = ['.', '..']
readdir_search(path) ==
    /\ CanCall
    /\ LET found == path_search(fs_cube, path) IN
       call' = [Idle EXCEPT !.op = "readdir", !.path = path, !.pc = "loop",
                            !.conversion = found.conversion, !.result = found.result,
                            !.todo = found.result.columns,
                            !.dirents = <<<<".">>, <<"..">>>>]
    /\ observed' = {fs_cube}
    /\ UNCHANGED <<tree, phase, fault, fs_cube, events, changes, log>>

\* one pass of the loop over result.columns
readdir_column ==
    /\ call.pc = "loop"
    /\ call.todo # <<>>
    /\ call' = [call EXCEPT !.todo = Tail(call.todo),
                            !.dirents = readdir_key(fs_cube, call.conversion, call.result,
                                                    Head(call.todo), call.dirents)]
    /\ UNCHANGED <<tree, phase, fault, fs_cube, events, changes, log, observed>>

\* the loop is over: the dirents are yielded
readdir_yield ==
    /\ call.pc = "loop"
    /\ call.todo = <<>>
    /\ call' = Returned("readdir", call.path, Ret("dirents", call.dirents))
    /\ UNCHANGED <<tree, phase, fault, fs_cube, events, changes, log, observed>>

\* FUSE has taken the result and waits for the next request
fuse_return ==
    /\ call.pc = "done"
    /\ call' = Idle
    /\ observed' = {}
    /\ UNCHANGED <<tree, phase, fault, fs_cube, events, changes, log>>

(***************************************************************************)
(* main: FileSystem.__init__ builds the first Cube; when that raises, the  *)
(* exception leaves main and nothing is mounted or watched.                *)
(***************************************************************************)
main ==
    /\ phase = "init"
    /\ LET built == Cube(tree, name_separator) IN
       IF built.ok
       THEN /\ fs_cube' = built.cube
            /\ phase' = "mounted"
            /\ fault' = NoError
       ELSE /\ fs_cube' = fs_cube
            /\ phase' = "aborted"
            /\ fault' = built.error
    /\ UNCHANGED <<tree, events, changes, log, call, observed>>

(***************************************************************************)
(* The watched tree changes and the observer queues an event.              *)
(***************************************************************************)
Event(is_directory, src_path) == [is_directory |-> is_directory, src_path |-> src_path]

CanChange == phase = "mounted" /\ changes < MaxChanges /\ Len(events) < MaxQueue

\* a marker file is created, modified or deleted
write_marker(d, doc) ==
    /\ CanChange
    /\ doc # tree[d]
    /\ tree' = [tree EXCEPT ![d] = doc]
    /\ events' = Append(events, Event(FALSE, os_path_join(dirpath(d), parameters_file)))
    /\ changes' = changes + 1
    /\ UNCHANGED <<phase, fault, fs_cube, log, call, observed>>

\* the directories in which files are renamed, and those that are removed
RenameDirs == {"c"}
RemovedDirs == {"b"}

\* a file other.yaml that holds doc is renamed to the marker file's name: the
\* event is a file event whose src_path is the name the file had
rename_into_marker(d, doc) ==
    /\ CanChange
    /\ doc # tree[d]
    /\ tree' = [tree EXCEPT ![d] = doc]
    /\ events' = Append(events, Event(FALSE, os_path_join(dirpath(d), <<"other.yaml">>)))
    /\ changes' = changes + 1
    /\ UNCHANGED <<phase, fault, fs_cube, log, call, observed>>

\* a marker file is renamed to other.yaml: src_path is the marker file
rename_out_of_marker(d) ==
    /\ CanChange
    /\ tree[d] # Absent
    /\ tree' = [tree EXCEPT ![d] = Absent]
    /\ events' = Append(events, Event(FALSE, os_path_join(dirpath(d), parameters_file)))
    /\ changes' = changes + 1
    /\ UNCHANGED <<phase, fault, fs_cube, log, call, observed>>

\* a directory is removed with what it holds: its marker file is deleted,
\* then the directory
remove_directory(d) ==
    /\ phase = "mounted" /\ changes < MaxChanges /\ Len(events) + 2 <= MaxQueue
    /\ tree[d] # Absent
    /\ tree' = [tree EXCEPT ![d] = Absent]
    /\ events' = events \o <<Event(FALSE, os_path_join(dirpath(d), parameters_file)),
                              Event(TRUE, dirpath(d))>>
    /\ changes' = changes + 1
    /\ UNCHANGED <<phase, fault, fs_cube, log, call, observed>>

\* something that is no marker file changes: another file, a directory, a
\* directory that has the marker file's name
OtherEvents ==
    {Event(FALSE, os_path_join(dirpath("a"), <<"notes.txt">>)),
     Event(TRUE, dirpath("a")),
     Event(TRUE, os_path_join(os_path_join(dirpath("a"), <<"sub">>), parameters_file))}

write_other(e) ==
    /\ CanChange
    /\ events' = Append(events, e)
    /\ changes' = changes + 1
    /\ UNCHANGED <<tree, phase, fault, fs_cube, log, call, observed>>

\* a refresh that assigns whatever Cube.refresh left, built or not
fs_refresh_assigning_first(cube, t) ==
    LET built == cube_refresh(cube, t) IN
    [ok |-> built.ok, cube |-> built.cube]

(***************************************************************************)
(* FileSystem.refresh: [ok, cube]; the assignment to _cube is not reached  *)
(* when Cube.refresh raises.                                               *)
(***************************************************************************)
fs_refresh(cube, t) ==
    LET built == cube_refresh(cube, t) IN
    IF built.ok THEN [ok |-> TRUE, cube |-> built.cube]
    ELSE [ok |-> FALSE, cube |-> cube]

\* a condition that leaves out the test for directory events
is_marker_event_of_any_kind(event) ==
    os_path_basename(event.src_path) = parameters_file

\* the condition of Watchdog.on_any_event
is_marker_event(event) ==
    ~event.is_directory /\ os_path_basename(event.src_path) = parameters_file

(***************************************************************************)
(* Watchdog.on_any_event, on the observer thread, for the oldest event.    *)
(***************************************************************************)
on_any_event ==
    /\ phase = "mounted"
    /\ events # <<>>
    /\ events' = Tail(events)
    /\ IF is_marker_event(Head(events))
       THEN LET refreshed == fs_refresh(fs_cube, tree) IN
            /\ fs_cube' = refreshed.cube
            /\ log' = IF refreshed.ok THEN "refreshed" ELSE "refresh failed"
       ELSE /\ fs_cube' = fs_cube
            /\ log' = "received"
    /\ observed' = IF call.pc = "loop" THEN observed \cup {fs_cube'} ELSE observed
    /\ UNCHANGED <<tree, phase, fault, changes, call>>

(***************************************************************************)
(* Specifications.                                                         *)
(***************************************************************************)
Trees == [DirNames -> Documents \cup {Absent}]

\* the tree of the README scenario: three parameter sets, one without size
ScenarioTree == [d \in DirNames |-> CASE d = "a" -> RedS [] d = "b" -> RedM [] OTHER -> Blue]

InitWith(t) ==
    /\ tree = t
    /\ phase = "init"
    /\ fault = NoError
    /\ fs_cube = NoCube
    /\ events = <<>>
    /\ changes = 0
    /\ log = "none"
    /\ call = Idle
    /\ observed = {}

Lookup(asked) ==
    \/ \E path \in asked : getattr(path)
    \/ \E path \in asked : readlink(path)
    \/ \E path \in asked : readdir_search(path)
    \/ readdir_column
    \/ readdir_yield
    \/ fuse_return

Watch ==
    \/ \E d \in DirNames, doc \in WrittenDocuments \cup {Absent} : write_marker(d, doc)
    \/ \E d \in RenameDirs, doc \in WrittenDocuments : rename_into_marker(d, doc)
    \/ \E d \in RenameDirs : rename_out_of_marker(d)
    \/ \E d \in RemovedDirs : remove_directory(d)
    \/ \E e \in OtherEvents : write_other(e)
    \/ on_any_event

\* a tree whose first build raises: two directories with the same parameters
DuplicateTree == [ScenarioTree EXCEPT !["b"] = RedS]

\* the mounted filesystem with the watchdog running
Init == \E t \in {ScenarioTree, DuplicateTree} : InitWith(t)

Next == main \/ Lookup(ScenarioPaths) \/ Watch

Spec == Init /\ [][Next]_vars

\* lookups alone, on the Cube of any tree
LookupTrees ==
    {t \in [DirNames -> LookupDocuments \cup {Absent}] : \E n \in 0..MaxFiles :
        \A i \in DOMAIN WalkOrder : (t[WalkOrder[i]] = Absent) <=> (i > n)}

InitLookup == \E t \in LookupTrees : InitWith(t)

NextLookup == main \/ Lookup(Paths)

SpecLookup == InitLookup /\ [][NextLookup]_vars

\* lookups on paths that name a key more than once, and a value that holds
\* the kv separator
RepeatSegments ==
    {kv(color, <<"red">>), kv(color, <<"green">>), kv(size, <<"s">>),
     kv(size, <<"s", name_separator, "m">>)}

RepeatPaths ==
    {PathOf(segs) : segs \in UNION {[1..n -> RepeatSegments] : n \in 0..MaxSegs}}

NextRepeat == main \/ Lookup(RepeatPaths)

SpecRepeat == InitLookup /\ [][NextRepeat]_vars

(***************************************************************************)
(* Vocabulary of the properties, stated on the tree and on the rows of a   *)
(* Cube without the code's loops.                                          *)
(***************************************************************************)
Done(op) == call.pc = "done" /\ call.op = op

\* what one whole lookup returns on one Cube
LookupOn(op, cube, path) ==
    CASE op = "getattr" -> fs_getattr(cube, path)
      [] op = "readlink" -> fs_readlink(cube, path)
      [] OTHER -> fs_readdir(cube, path)

\* the event handler takes the oldest event in this step
Handled == events # <<>> /\ events' = Tail(events)

\* the last component of a path names the marker file
NamesMarker(p) ==
    /\ Len(p) >= Len(parameters_file)
    /\ SubSeq(p, Len(p) - Len(parameters_file) + 1, Len(p)) = parameters_file
    /\ (Len(p) > Len(parameters_file) => p[Len(p) - Len(parameters_file)] = os_sep)

\* the directories of a tree that hold a record, its filterable keys, and the
\* value a record has for a key (the sentinel when it does not define the key)
RecordDirs(t) == {d \in DirNames : t[d].kind = "yaml"}

Scans(t) == \A d \in DirNames : t[d].kind # "malformed"

FilterableKeys(t) == UNION {DOMAIN t[d].params : d \in RecordDirs(t)}

ValueOf(t, d, k) == IF k \in DOMAIN t[d].params THEN t[d].params[k] ELSE none_placeholder

Collide(t, d, e) == d # e /\ \A k \in FilterableKeys(t) : ValueOf(t, d, k) = ValueOf(t, e, k)

DescriptorPath(d) == <<os_sep, d, os_sep>> \o parameters_file

(***************************************************************************)
(* C1: a lookup that interleaves with refreshes returns what the whole     *)
(* lookup returns on one of the Cubes that were current while it ran.      *)
(* readdir breaks it: it takes the rows from the Cube it started on and    *)
(* the parameters from the Cube that is current at each column.            *)
(***************************************************************************)
C1_OneSnapshot ==
    call.pc = "done" =>
        \E cube \in observed : call.ret = LookupOn(call.op, cube, call.path)

(***************************************************************************)
(* C2: when the handler takes a marker event and the tree does not build,  *)
(* FileSystem._cube is left as it was, nothing leaves the handler (the     *)
(* filesystem stays mounted, the failure is logged), and every lookup      *)
(* returns after the step what it returned before it.                      *)
(***************************************************************************)
C2_FailedRefreshKeepsSnapshot ==
    [][(/\ Handled
        /\ ~Head(events).is_directory
        /\ NamesMarker(Head(events).src_path)
        /\ (~Scans(tree) \/ \E d, e \in RecordDirs(tree) :
                                FilterableKeys(tree) # {} /\ Collide(tree, d, e)))
          => /\ fs_cube' = fs_cube
             /\ phase' = "mounted"
             /\ fault' = NoError
             /\ log' = "refresh failed"
             /\ \A op \in {"getattr", "readlink", "readdir"}, path \in ScenarioPaths :
                   LookupOn(op, fs_cube', path) = LookupOn(op, fs_cube, path)]_vars

C2_Witness ==
    /\ log = "refresh failed"
    /\ fs_cube.built
    /\ ~Cube(tree, name_separator).ok
    /\ Done("getattr")

(***************************************************************************)
(* C3: whenever two records of the scanned tree have the same value for    *)
(* every filterable key (the sentinel for a key a record does not define), *)
(* the build raises the duplicate-key error and its message groups the     *)
(* descriptor paths of the two.  Fails for records that define no          *)
(* attribute at all: with no index column the uniqueness check is skipped. *)
(***************************************************************************)
C3_Uniqueness ==
    (phase # "init" /\ Scans(tree)) =>
        \A d, e \in RecordDirs(tree) :
            Collide(tree, d, e) =>
                /\ phase = "aborted"
                /\ fault.type = "ValueError"
                /\ \E group \in fault.similar :
                      {DescriptorPath(d), DescriptorPath(e)} \subseteq group

\* the same with at least one filterable key: what the code does guarantee
C3_UniquenessWithKeys ==
    (phase # "init" /\ Scans(tree) /\ FilterableKeys(tree) # {}) =>
        \A d, e \in RecordDirs(tree) :
            Collide(tree, d, e) =>
                /\ phase = "aborted"
                /\ fault.type = "ValueError"
                /\ \E group \in fault.similar :
                      {DescriptorPath(d), DescriptorPath(e)} \subseteq group

(***************************************************************************)
(* A path read without the parser's loop: its segments are the runs        *)
(* between the separators; parsing stops at the first non-empty segment    *)
(* that has no kv separator or whose key is not among the keys.            *)
(***************************************************************************)
SepPositions(p) == {i \in 1..Len(p) : p[i] = os_sep}

SegCount(p) == Cardinality(SepPositions(p)) + 1

\* position of the k-th separator
SepAt(p, k) ==
    CHOOSE i \in SepPositions(p) : Cardinality({j \in SepPositions(p) : j < i}) = k - 1

SegStart(p, k) == IF k = 1 THEN 1 ELSE SepAt(p, k - 1) + 1

SegEnd(p, k) == IF k = SegCount(p) THEN Len(p) ELSE SepAt(p, k) - 1

Seg(p, k) == SubSeq(p, SegStart(p, k), SegEnd(p, k))

HasKv(seg) == \E i \in 1..Len(seg) : seg[i] = name_separator

FirstKv(seg) ==
    CHOOSE i \in 1..Len(seg) :
        seg[i] = name_separator /\ \A j \in 1..(i - 1) : seg[j] # name_separator

KeyOf(seg) == SubSeq(seg, 1, FirstKv(seg) - 1)

ValOf(seg) == SubSeq(seg, FirstKv(seg) + 1, Len(seg))

Parses(seg, keys) == HasKv(seg) /\ KeyOf(seg) \in keys

\* stop: the segment parsing stops at, SegCount + 1 when every segment is
\* consumed; next: the text from that segment on; seen: the text before it;
\* query: for each key of a consumed segment, the value of the last consumed
\* segment with that key
Reading(p, keys) ==
    LET n == SegCount(p)
        segs == [k \in 1..n |-> Seg(p, k)]
        stops(k) == segs[k] # <<>> /\ ~Parses(segs[k], keys)
        stop == IF \E k \in 1..n : stops(k)
                THEN CHOOSE k \in 1..n : stops(k) /\ \A j \in 1..(k - 1) : ~stops(j)
                ELSE n + 1
        consumed == {k \in 1..(stop - 1) : segs[k] # <<>>}
        last(key) == CHOOSE k \in consumed :
                        /\ KeyOf(segs[k]) = key
                        /\ \A j \in consumed : KeyOf(segs[j]) = key => j <= k
    IN  [stop |-> stop,
         next |-> IF stop > n THEN <<>> ELSE SubSeq(p, SegStart(p, stop), Len(p)),
         seen |-> IF stop > n THEN p ELSE SubSeq(p, 1, SegStart(p, stop) - 2),
         query |-> [key \in {KeyOf(segs[k]) : k \in consumed} |-> ValOf(segs[last(key)])]]

Remainder(p, keys) == Reading(p, keys).next

FilterOf(p, keys) == Reading(p, keys).query

\* the rows of a Cube that match a filter
Matching(cube, filter) ==
    {i \in DOMAIN cube.cube.rows :
        \A key \in DOMAIN filter : cube.cube.rows[i][key] = filter[key]}

Subset(cube, p) == Matching(cube, FilterOf(p, cube.parameters))

DotLike(p) == Seg(p, SegCount(p)) \in {<<>>, <<".">>, <<"..">>}

(***************************************************************************)
(* C4: getattr answers Directory when the last component of the path is    *)
(* empty (the root), '.' or '..', or more than one record matches the      *)
(* path's filter; Link when exactly one record matches; ENOENT otherwise.  *)
(***************************************************************************)
C4_EntryKind ==
    Done("getattr") =>
        LET matches == Cardinality(Subset(fs_cube, call.path)) IN
        call.ret.kind =
            IF DotLike(call.path) \/ matches > 1 THEN "S_IFDIR"
            ELSE IF matches = 1 THEN "S_IFLNK"
            ELSE "ENOENT"

C4_Witness ==
    /\ Done("getattr")
    /\ call.ret.kind = "S_IFLNK"
    /\ FilterOf(call.path, fs_cube.parameters) # <<>>
    /\ Len(fs_cube.cube.rows) > 1

(***************************************************************************)
(* C5: the parser stops at the first non-empty segment that has no kv      *)
(* separator or an unknown key; that segment and all later ones are the    *)
(* remainder and add nothing to the filter; empty segments before it are   *)
(* skipped.                                                                *)
(***************************************************************************)
C5_GreedyStop ==
    call.pc = "loop" =>
        LET reading == Reading(call.path, fs_cube.parameters) IN
        /\ call.conversion.next = reading.next
        /\ call.conversion.seen = reading.seen
        /\ call.conversion.query = reading.query

\* parsing stopped before a segment that parses on its own
C5_Witness ==
    /\ call.pc = "loop"
    /\ call.conversion.next # <<>>
    /\ \E k \in 1..SegCount(call.path) :
          /\ k > Reading(call.path, fs_cube.parameters).stop
          /\ Parses(Seg(call.path, k), fs_cube.parameters)
    /\ Seg(call.path, 1) = <<>>

(***************************************************************************)
(* C6: readdir on a path with a non-empty remainder yields '.' and '..'    *)
(* and no key:value name.  The code never looks at the remainder: it lists *)
(* the children of the consumed prefix.                                    *)
(***************************************************************************)
C6_NoChildrenPastRemainder ==
    (Done("readdir") /\ Remainder(call.path, fs_cube.parameters) # <<>>) =>
        call.ret.value = <<<<".">>, <<"..">>>>

(***************************************************************************)
(* C7: readdir on a path with an empty remainder yields '.' and '..' and   *)
(* then one name key:value for each filterable key the filter does not     *)
(* constrain and each value the key takes among the matching rows, each    *)
(* such pair once, and nothing else.                                       *)
(***************************************************************************)
ChildPairs(cube, filter) ==
    {<<key, cube.cube.rows[i][key]>> :
        key \in cube.parameters \ DOMAIN filter, i \in Matching(cube, filter)}

C7_Children ==
    Done("readdir") =>
        LET reading == Reading(call.path, fs_cube.parameters)
            pairs == ChildPairs(fs_cube, reading.query)
        IN  reading.next = <<>> =>
                /\ Len(call.ret.value) = 2 + Cardinality(pairs)
                /\ call.ret.value[1] = <<".">>
                /\ call.ret.value[2] = <<"..">>
                /\ {call.ret.value[i] : i \in 3..Len(call.ret.value)}
                      = {kv(pair[1], pair[2]) : pair \in pairs}

\* C7 as stated: moreover no name is yielded twice.  Two pairs spell the
\* same name when a key holds the kv separator: size = 's:m' and 'size:s' = 'm'.
C7_NoNameTwice ==
    (Done("readdir") /\ Remainder(call.path, fs_cube.parameters) = <<>>) =>
        /\ C7_Children
        /\ \A i, j \in DOMAIN call.ret.value :
              i # j => call.ret.value[i] # call.ret.value[j]

C7_Witness ==
    /\ Done("readdir")
    /\ Remainder(call.path, fs_cube.parameters) = <<>>
    /\ FilterOf(call.path, fs_cube.parameters) # <<>>
    /\ Len(call.ret.value) > 2
    /\ \E i \in Subset(fs_cube, call.path) :
          \E key \in fs_cube.parameters : fs_cube.cube.rows[i][key] = none_placeholder

(***************************************************************************)
(* C8: the scenario.  /a holds color red, size s; /b color red, size m;    *)
(* /c color blue and no size.  Stated for the lookups that ran on the Cube *)
(* of that tree alone.                                                     *)
(***************************************************************************)
ScenarioCube == Cube(ScenarioTree, name_separator).cube

OnScenario(op, segs) ==
    call.pc = "done" /\ call.op = op /\ call.path = PathOf(segs) /\ observed = {ScenarioCube}

Children(ret) == {ret.value[i] : i \in 3..Len(ret.value)}

red == kv(color, <<"red">>)
blue == kv(color, <<"blue">>)
green == kv(color, <<"green">>)
small == kv(size, <<"s">>)
medium == kv(size, <<"m">>)
unsized == kv(size, none_placeholder)

\* all of the scenario but the root listing
ScenarioBelowRoot ==
    /\ OnScenario("getattr", <<red>>) => call.ret.kind = "S_IFDIR"
    /\ OnScenario("readdir", <<red>>) => Children(call.ret) = {small, medium}
    /\ OnScenario("getattr", <<red, small>>) => call.ret.kind = "S_IFLNK"
    /\ OnScenario("readlink", <<red, small>>) => call.ret = Ret("target", dirpath("a"))
    /\ OnScenario("getattr", <<blue, unsized>>) => call.ret.kind = "S_IFLNK"
    /\ OnScenario("readlink", <<blue, unsized>>) => call.ret = Ret("target", dirpath("c"))
    /\ OnScenario("getattr", <<green>>) => call.ret.kind = "ENOENT"

\* C8 as stated: the children of the root are color:red and color:blue
C8_Scenario ==
    /\ OnScenario("readdir", <<>>) => Children(call.ret) = {red, blue}
    /\ ScenarioBelowRoot

\* C8 with the root listing the code gives: the root lists the values of
\* every key, size as well as color, the sentinel among them
C8_ScenarioRootListsAllKeys ==
    /\ OnScenario("readdir", <<>>) =>
          Children(call.ret) = {red, blue, small, medium, unsized}
    /\ ScenarioBelowRoot

C8_Witness ==
    /\ OnScenario("readdir", <<>>)
    /\ {red, blue} \subseteq Children(call.ret)

(***************************************************************************)
(* C9: adding constraints to a filter never adds rows: for F1 a            *)
(* sub-mapping of F2 the rows of F2 are among the rows of F1; the empty    *)
(* filter keeps every row.  Checked for the filter of the path a readdir   *)
(* searched for, and on every Cube for every filter over its keys and      *)
(* values.                                                                 *)
(***************************************************************************)
SubFilters(f) == {[key \in keys |-> f[key]] : keys \in SUBSET DOMAIN f}

RowSet(frame) == Range(frame.rows)

ValuesIn(cube) ==
    {cube.cube.rows[i][key] : i \in DOMAIN cube.cube.rows, key \in cube.parameters}
        \cup {<<"green">>}

FiltersOver(cube) ==
    UNION {[keys -> ValuesIn(cube)] : keys \in SUBSET cube.parameters}

Narrows(f2, f1, frame) ==
    /\ RowSet(index_search(f2, frame)) \subseteq RowSet(index_search(f1, frame))
    /\ Len(index_search(f2, frame).rows) <= Len(index_search(f1, frame).rows)

C9_FilterMonotone ==
    /\ call.pc = "loop" =>
          /\ call.result = index_search(call.conversion.query, fs_cube.cube)
          /\ \A f1 \in SubFilters(call.conversion.query) :
                Narrows(call.conversion.query, f1, fs_cube.cube)
    /\ (phase = "mounted" /\ call.pc = "idle") =>
          /\ index_search(<<>>, fs_cube.cube) = fs_cube.cube
          /\ \A f2 \in FiltersOver(fs_cube) : \A f1 \in SubFilters(f2) :
                Narrows(f2, f1, fs_cube.cube)

\* a second constraint took a row away
C9_Witness ==
    /\ call.pc = "loop"
    /\ Cardinality(DOMAIN call.conversion.query) = 2
    /\ \E f1 \in SubFilters(call.conversion.query) :
          Len(call.result.rows) < Len(index_search(f1, fs_cube.cube).rows)
    /\ Len(call.result.rows) = 1

(***************************************************************************)
(* C10: the handler rescans for an event that is no directory event and    *)
(* whose file name is the marker's, once, and publishes the Cube of the    *)
(* tree when it builds; for any other event it rescans nothing and leaves  *)
(* FileSystem._cube as it is.                                              *)
(***************************************************************************)
C10_EventFilter ==
    [][Handled =>
          IF Head(events).is_directory \/ ~NamesMarker(Head(events).src_path)
          THEN fs_cube' = fs_cube /\ log' = "received"
          ELSE /\ log' \in {"refreshed", "refresh failed"}
               /\ (log' = "refreshed") = Cube(tree, name_separator).ok
               /\ fs_cube' = IF Cube(tree, name_separator).ok
                             THEN Cube(tree, name_separator).cube
                             ELSE fs_cube]_vars

\* an event that is no marker event was handled
C10_Witness ==
    /\ log = "received"
    /\ changes > 0
    /\ fs_cube.built

(***************************************************************************)
(* C11: when every delivered event has been handled and the tree builds,   *)
(* FileSystem._cube is the Cube of the tree as it is.  Fails for a file    *)
(* renamed to the marker file's name: the handler looks at src_path alone, *)
(* which is the name the file had, and does not rescan.                    *)
(***************************************************************************)
C11_Convergence ==
    (phase = "mounted" /\ events = <<>> /\ Cube(tree, name_separator).ok) =>
        fs_cube = Cube(tree, name_separator).cube

(***************************************************************************)
(* C12: a marker file that cannot be parsed counts as a record with no     *)
(* attribute, so the build gives the Cube of the tree in which every such  *)
(* file is an empty one.  The code lets the exception of yaml.load leave   *)
(* _read_parameters and the whole build.                                   *)
(***************************************************************************)
Contained(t) == [d \in DirNames |-> IF t[d].kind = "malformed" THEN EmptyDoc ELSE t[d]]

C12_FaultsContained ==
    (phase # "init" /\ ~Scans(tree) /\ Cube(Contained(tree), name_separator).ok) =>
        /\ phase = "mounted"
        /\ fs_cube = Cube(Contained(tree), name_separator).cube

(***************************************************************************)
(* C13: a lookup runs only on a mounted filesystem whose Cube is built;    *)
(* before main has built the first Cube nothing is asked, delivered or     *)
(* changed; a mounted filesystem started from a tree that builds, and      *)
(* serves the Cube of that tree until an event is handled; when the first  *)
(* build raises, the exception leaves main, no Cube is ever served, no     *)
(* lookup runs and no event is delivered or handled.                       *)
(***************************************************************************)
C13_StartupOrdering ==
    /\ call.pc # "idle" =>
          /\ phase = "mounted"
          /\ fs_cube.built
          /\ \A cube \in observed : cube.built
    /\ phase = "init" =>
          call = Idle /\ events = <<>> /\ changes = 0 /\ log = "none" /\ ~fs_cube.built
    /\ phase = "mounted" => fs_cube.built /\ fault = NoError
    /\ (phase = "mounted" /\ changes = 0) =>
          /\ Cube(tree, name_separator).ok
          /\ fs_cube = Cube(tree, name_separator).cube
    /\ (phase # "init" /\ changes = 0 /\ ~Cube(tree, name_separator).ok) =>
          phase = "aborted"
    /\ phase = "aborted" =>
          /\ fault = Cube(tree, name_separator).error
          /\ fault.type # "none"
          /\ ~fs_cube.built
          /\ call = Idle /\ events = <<>> /\ changes = 0 /\ log = "none"

\* the first build raised the duplicate-key error
C13_Witness ==
    /\ phase = "aborted"
    /\ fault.type = "ValueError"
    /\ tree = DuplicateTree

(***************************************************************************)
(* C14: getattr on a path whose parse leaves a remainder, and whose last   *)
(* segment is neither '.' nor '..', answers ENOENT.  The code never looks  *)
(* at the remainder: it counts the rows matching the consumed segments.    *)
(***************************************************************************)
C14_RemainderIsNotFound ==
    (/\ Done("getattr")
     /\ Remainder(call.path, fs_cube.parameters) # <<>>
     /\ Seg(call.path, SegCount(call.path)) \notin {<<".">>, <<"..">>}) =>
        call.ret.kind = "ENOENT"

(***************************************************************************)
(* C15: of the consumed segments that name one key the last gives the      *)
(* filter its value; all of them are in the consumed prefix; the value of  *)
(* a segment is what follows its first kv separator; every lookup returns  *)
(* what it returns on the path that keeps, of the consumed segments with   *)
(* one key, only the last.                                                 *)
(***************************************************************************)
\* consumed: the non-empty segments before the one parsing stops at;
\* overridden: those of them that a later one with the same key follows;
\* last_only: the path without its overridden segments
Repeats(p, keys) ==
    LET reading == Reading(p, keys)
        segs == [k \in 1..SegCount(p) |-> Seg(p, k)]
        consumed == {k \in 1..(reading.stop - 1) : segs[k] # <<>>}
        key == [k \in consumed |-> KeyOf(segs[k])]
        overridden == {k \in consumed : \E j \in consumed : j > k /\ key[j] = key[k]}
        kept == SelectSeq([k \in DOMAIN segs |-> k], LAMBDA k : k \notin overridden)
    IN  [consumed |-> consumed,
         overridden |-> overridden,
         key |-> key,
         value |-> [k \in consumed |-> ValOf(segs[k])],
         seen |-> reading.seen,
         last_only |-> str_join([i \in DOMAIN kept |-> segs[kept[i]]], os_sep)]

C15_RepeatedKey ==
    LET repeats == Repeats(call.path, fs_cube.parameters)
        found == path_search(fs_cube, repeats.last_only)
    IN  /\ call.pc = "loop" =>
              /\ DOMAIN call.conversion.query = Range(repeats.key)
              /\ \A k \in repeats.consumed \ repeats.overridden :
                    call.conversion.query[repeats.key[k]] = repeats.value[k]
              /\ call.conversion.query = found.conversion.query
              /\ call.conversion.seen = repeats.seen
              /\ call.result = found.result
        /\ call.pc = "done" => call.ret = LookupOn(call.op, fs_cube, repeats.last_only)

\* size:s is overridden by size:s:m, whose value holds the kv separator, and
\* the record with that value is found
C15_Witness ==
    /\ call.pc = "loop"
    /\ call.path = PathOf(<<kv(size, <<"s">>), kv(size, <<"s", name_separator, "m">>)>>)
    /\ Repeats(call.path, fs_cube.parameters).overridden = {2}
    /\ Len(call.result.rows) = 1
    /\ Len(fs_cube.cube.rows) = 2

(***************************************************************************)
(* C16: a readlink step leaves FileSystem._cube as it is; when exactly one *)
(* record matches the path's filter it returns the directory that holds    *)
(* that record's marker file; otherwise it fails with AssertionError and   *)
(* returns no target.                                                      *)
(***************************************************************************)
C16_Readlink ==
    [][(call.op # "readlink" /\ call'.pc = "done" /\ call'.op = "readlink") =>
          /\ fs_cube' = fs_cube
          /\ LET matches == Subset(fs_cube, call'.path) IN
             IF Cardinality(matches) = 1
             THEN LET row == fs_cube.cube.rows[CHOOSE i \in matches : TRUE] IN
                  \E d \in RecordDirs(tree) :
                      /\ row[internal(<<"file_path">>)] = DescriptorPath(d)
                      /\ \A key \in fs_cube.parameters : row[key] = ValueOf(tree, d, key)
                      /\ call'.ret = Ret("target", <<os_sep, d>>)
             ELSE call'.ret = Ret("AssertionError", <<>>)]_vars

\* one of several records was singled out by a filter
C16_Witness ==
    /\ Done("readlink")
    /\ call.ret.kind = "target"
    /\ FilterOf(call.path, fs_cube.parameters) # <<>>
    /\ Len(fs_cube.cube.rows) > 1

(***************************************************************************)
(* C17: a readlink that the host sends once a getattr of the same path has *)
(* answered Link never fails its assertion.  Fails when a refresh is      *)
(* published between the two calls: readlink searches the Cube that is     *)
(* current when it runs, in which the path may match no record or several. *)
(***************************************************************************)
C17_ReadlinkAfterLink ==
    (Done("readlink") /\ call.checked) => call.ret.kind = "target"

(***************************************************************************)
(* C18: on a Cube none of whose keys holds the kv separator, every name    *)
(* readdir lists for a path with an empty remainder can be walked into:    *)
(* the path extended by the name parses with an empty remainder, its       *)
(* filter is the path's filter and one more constraint, the one the name   *)
(* spells, it matches a record, and getattr answers Directory or Link.     *)
(* No key or value of the model holds the path separator.                  *)
(***************************************************************************)
PlainKeys(cube) == \A key \in cube.parameters : ~HasKv(key)

ChildPath(p, name) == IF p[Len(p)] = os_sep THEN p \o name ELSE p \o <<os_sep>> \o name

C18_Navigable ==
    (Done("readdir") /\ PlainKeys(fs_cube)) =>
        LET reading == Reading(call.path, fs_cube.parameters) IN
        reading.next = <<>> =>
            \A i \in 3..Len(call.ret.value) :
                LET child == ChildPath(call.path, call.ret.value[i])
                    found == path_search(fs_cube, child)
                    added == DOMAIN found.conversion.query \ DOMAIN reading.query
                IN  /\ found.conversion.next = <<>>
                    /\ Cardinality(added) = 1
                    /\ \A key \in DOMAIN reading.query :
                          /\ key \in DOMAIN found.conversion.query
                          /\ found.conversion.query[key] = reading.query[key]
                    /\ \A key \in added :
                          kv(key, found.conversion.query[key]) = call.ret.value[i]
                    /\ Len(found.result.rows) >= 1
                    /\ Len(found.result.rows) <= Cardinality(Subset(fs_cube, call.path))
                    /\ fs_getattr(fs_cube, child).kind \in {"S_IFDIR", "S_IFLNK"}

\* a listing with a child whose value is the sentinel and one whose value
\* holds the kv separator
C18_Witness ==
    /\ Done("readdir")
    /\ PlainKeys(fs_cube)
    /\ Remainder(call.path, fs_cube.parameters) = <<>>
    /\ Len(call.ret.value) > 2
    /\ \E i \in 3..Len(call.ret.value) : call.ret.value[i] = kv(size, <<"s", name_separator, "m">>)
    /\ \E i \in 3..Len(call.ret.value) : call.ret.value[i] = kv(color, none_placeholder)

(***************************************************************************)
(* C19: in the Cube that is current, for every record and every order of   *)
(* the filterable keys, the path of one segment key:value per key, the     *)
(* value being the record's (the sentinel where it defines none), matches  *)
(* that record alone, getattr answers Link and readlink returns the        *)
(* record's link target.  Fails for a record in a Cube with no filterable  *)
(* key (its path is the root, a Directory) and when a key holds the kv     *)
(* separator.                                                              *)
(***************************************************************************)
Orders(keys) ==
    {order \in [1..Cardinality(keys) -> keys] :
        \A i, j \in DOMAIN order : order[i] = order[j] => i = j}

RecordPath(row, order) == PathOf([k \in DOMAIN order |-> kv(order[k], row[order[k]])])

Reaches(cube, row, path) ==
    /\ path_search(cube, path).result.rows = <<row>>
    /\ fs_getattr(cube, path) = Ret("S_IFLNK", <<>>)
    /\ fs_readlink(cube, path) = Ret("target", row[internal(<<"link_target">>)])

C19_EveryRecordReachable ==
    (phase = "mounted" /\ call.pc = "idle") =>
        \A i \in DOMAIN fs_cube.cube.rows : \A order \in Orders(fs_cube.parameters) :
            Reaches(fs_cube, fs_cube.cube.rows[i],
                    RecordPath(fs_cube.cube.rows[i], order))

\* the same on a Cube that has a filterable key and no key with the kv
\* separator in it: what the code does guarantee
C19_ReachableWithPlainKeys ==
    (phase = "mounted" /\ call.pc = "idle"
        /\ fs_cube.parameters # {} /\ PlainKeys(fs_cube)) =>
        \A i \in DOMAIN fs_cube.cube.rows : \A order \in Orders(fs_cube.parameters) :
            Reaches(fs_cube, fs_cube.cube.rows[i],
                    RecordPath(fs_cube.cube.rows[i], order))

====
